---- MODULE Spec2Model ----
(***************************************************************************)
(* Verification model of the stock-market download scripts:                *)
(*   - the sleep-based rate limiter of the Alpha Vantage clients,          *)
(*   - the retrying download of one symbol (commented version),            *)
(*   - the batch insert into AVdata.StockPrices and the processing of the  *)
(*     downloaded JSON files,                                              *)
(*   - the /descargar handler of the web form.                             *)
(* Time is counted in whole seconds.                                       *)
(***************************************************************************)
EXTENDS Integers, Sequences, FiniteSets, TLC

VARIABLES
    \* ---- clock and rate limiter (api_client.py, alpha_vantage_api_commented.py)
    now,                  \* value time.time() would return
    last_call_timestamp,  \* per client: attribute last_call_timestamp
    prev_timestamp,       \* per client: value stored by the call before the last one
    slept,                \* per client: seconds requested from time.sleep by the last call
    calls,                \* per client: number of completed rate-limit calls (capped)
    \* ---- download of one symbol (stock_downloader_commented.py)
    api_function,         \* self.api_function, read from the configuration
    dl_pc,                \* position inside download_symbol_data
    attempt,              \* loop variable of the retry loop
    retry_delay,          \* local retry_delay
    dl_sleeps,            \* the time.sleep calls made by download_symbol_data
    api_depth,            \* nesting depth of the running get_daily_* call
    api_requests,         \* HTTP requests sent since the download began
    api_result,           \* outcome of the last get_daily_* call
    download_status,      \* Status of the download record created by this call
    dl_return,            \* value returned by download_symbol_data
    \* ---- batch insert (stock_storage_commented.py, stock_storage_poo.py)
    impl,                 \* which StockDataStorage runs: "commented" or "poo"
    StockPrices,          \* committed rows of AVdata.StockPrices, as inserted slices
    pending,              \* rows inserted on the connection and not yet committed
    st_pc,                \* position inside store_stock_data
    st_src,               \* the data_list being stored (its origin)
    st_n,                 \* len(values_list)
    st_i,                 \* loop variable i of the batch loop
    total_inserted,       \* local total_inserted
    st_return,            \* value returned by store_stock_data
    batches,              \* the batches handed to executemany by this call
    commits,              \* successful commits made by this call
    st_error,             \* what failed in this call: "none", "executemany", "commit"
    \* ---- processing of the downloaded files
    file_meta,            \* per JSON file: what it contains and what the metadata hold
    data_dir,             \* JSON files in the data directory
    processed_dir,        \* files in data/processed
    fs_pc,                \* position inside process_all_json_files
    json_files,           \* files of the listing not yet handled
    results,              \* results of the running call, per file
    runs,                 \* finished calls of process_all_json_files
    \* ---- web form (webapp/app.py)
    web_req,              \* the form of the last POST /descargar
    web_response,         \* its response
    web_connects,         \* calls of conectar_sql_server made by the last request
    web_downloads,        \* calls of descargar_datos_yahoo made by the last request
    web_failed,           \* the statement of its transaction that raised
    web_before,           \* AVData.StockPrices before the last request
    web_requests,         \* requests handled
    \* ---- the two download flows side by side (stock_downloader_poo.py)
    Symbols,              \* rows of Metadata.Symbols: Symbol and IsActive
    env,                  \* what the database, the disk and the first request may do
    poo_Symbols,          \* Metadata.Symbols of the database the POO flow runs on
    poo_pc,               \* position of the POO download_symbol_data
    poo_return,           \* its result, its requests, the Status of its record
    \* ---- JSON reshaping (stock_storage_commented.py, stock_storage_poo.py)
    json_file,            \* name of the JSON file, as its parts between '_'
    json_doc,             \* what the file holds
    json_done,            \* the implementations that have processed the file
    json_out,             \* per implementation: the (symbol, data_list) returned
    \* ---- the Singleton classes (base.py, api_client.py, metadata_manager_poo.py)
    instances,            \* Singleton._instances: per class, its object or none
    heap,                 \* the objects created so far, with their attributes
    returned,             \* per class: the objects its constructor calls returned
    sg_calls,             \* constructor calls made
    sg_last,              \* the last constructor call: class and api_key argument
    \* ---- symbols due for a download (metadata_manager_poo.py)
    Downloads,            \* rows of Metadata.Downloads: Symbol and LastDownloadDate
    md_pc,                \* position of get_symbols_to_download
    md_error,             \* the query of the call that raised, or "none"
    md_result,            \* the symbols of the list it returned
    \* ---- the first download script (scripts/Downloader.py)
    symbols_lista,        \* symbols_lista: the rows read from Metadata.Symbols
    lp_pc,                \* position of the script
    lp_i,                 \* number of symbols the loop has taken from the list
    request_times,        \* the moments of the requests.get calls, in order
    outcomes,             \* per symbol taken: how its iteration ended
    cursor_rows,          \* SymbolIDs with rows executed and not committed
    committed_rows        \* SymbolIDs with rows committed in AVData.StockPrices

rate_vars == <<now, last_call_timestamp, prev_timestamp, slept, calls>>

dl_vars == <<api_function, dl_pc, attempt, retry_delay, dl_sleeps, api_depth,
             api_requests, api_result, download_status, dl_return>>

db_vars == <<StockPrices, pending>>

st_vars == <<impl, st_pc, st_src, st_n, st_i, total_inserted, st_return, batches,
             commits, st_error>>

fs_vars == <<file_meta, data_dir, processed_dir, fs_pc, json_files, results, runs>>

web_vars == <<web_req, web_response, web_connects, web_downloads, web_failed,
              web_before, web_requests>>

pl_vars == <<Symbols, env, poo_Symbols, poo_pc, poo_return>>

\* the variables of the parts described after the web form
js_vars == <<json_file, json_doc, json_done, json_out>>

sg_vars == <<instances, heap, returned, sg_calls, sg_last>>

md_vars == <<Downloads, md_pc, md_error, md_result>>

lp_vars == <<symbols_lista, lp_pc, lp_i, request_times, outcomes, cursor_rows,
             committed_rows>>

rest_vars == <<pl_vars, js_vars, sg_vars, md_vars, lp_vars>>

vars == <<rate_vars, dl_vars, db_vars, st_vars, fs_vars, web_vars, rest_vars>>

----------------------------------------------------------------------------
(* Bounds of the model *)
StartClock  == 1700000000   \* wall-clock second at which the process starts
Horizon     == 20           \* seconds of wall-clock time explored
MaxTick     == 6           \* longest pause between two operations
MaxOversleep == 1           \* time.sleep and the surrounding code may take longer
MaxCalls    == 3            \* completed calls counted per client
MaxRecursion == 3           \* stands for the interpreter's recursion limit
MaxRows     == 2001         \* longest data_list handed to store_stock_data
MaxRuns     == 2            \* calls of process_all_json_files
MaxWebRows  == 2            \* rows of a Yahoo Finance download
MaxDefects  == 2            \* values of a JSON file that differ from the API's format
MaxConstructions == 4       \* constructor calls of the Singleton classes
MaxDownloads == 2           \* rows of Metadata.Downloads per symbol
MaxSymbols  == 3            \* rows in symbols_lista (the query takes TOP (5))

----------------------------------------------------------------------------
(* Rate limiter *)

Clients == {"AlphaVantageClient", "AlphaVantageAPI"}

\* self.min_call_interval = 12
min_call_interval == 12

Min(a, b) == IF a < b THEN a ELSE b

NoSleepTime(current_time, last) == 0

\* The argument of time.sleep in handle_rate_limit / _respect_rate_limit
\* (0 when the call does not sleep).
SleepTime(current_time, last) ==
    LET time_since_last_call == current_time - last
    IN  IF time_since_last_call < min_call_interval
        THEN min_call_interval - time_since_last_call
        ELSE 0

RateInit ==
    /\ now \in StartClock .. (StartClock + 1)
    /\ last_call_timestamp = [c \in Clients |-> 0]
    /\ prev_timestamp = [c \in Clients |-> 0]
    /\ slept = [c \in Clients |-> 0]
    /\ calls = [c \in Clients |-> 0]

\* One rate-limit call of client c: the sleep and the code around it take
\* `over` seconds more than requested; `after` seconds pass between the
\* moment the timestamp is stored and the end of the enclosing step.
RateLimited(c, over, after) ==
    LET sleep_time == SleepTime(now, last_call_timestamp[c])
        stamp == now + sleep_time + over
    IN  /\ now' = stamp + after
        /\ slept' = [slept EXCEPT ![c] = sleep_time]
        /\ prev_timestamp' = [prev_timestamp EXCEPT ![c] = last_call_timestamp[c]]
        /\ last_call_timestamp' = [last_call_timestamp EXCEPT ![c] = stamp]
        /\ calls' = [calls EXCEPT ![c] = Min(@ + 1, MaxCalls)]

\* AlphaVantageClient.handle_rate_limit
handle_rate_limit ==
    /\ now < StartClock + Horizon
    /\ \E over \in 0 .. MaxOversleep : RateLimited("AlphaVantageClient", over, 0)
    /\ UNCHANGED <<dl_vars, db_vars, st_vars, fs_vars, web_vars, rest_vars>>

\* AlphaVantageAPI._respect_rate_limit
respect_rate_limit ==
    /\ now < StartClock + Horizon
    /\ \E over \in 0 .. MaxOversleep : RateLimited("AlphaVantageAPI", over, 0)
    /\ UNCHANGED <<dl_vars, db_vars, st_vars, fs_vars, web_vars, rest_vars>>

\* Wall-clock time passing between two operations; the clock never goes back.
Tick ==
    /\ now < StartClock + Horizon
    /\ \E d \in 1 .. MaxTick : now' = now + d
    /\ UNCHANGED <<last_call_timestamp, prev_timestamp, slept, calls>>
    /\ UNCHANGED <<dl_vars, db_vars, st_vars, fs_vars, web_vars, rest_vars>>

RateNext == handle_rate_limit \/ respect_rate_limit \/ Tick

----------------------------------------------------------------------------
(* Alpha Vantage answers and the get_daily_* wrappers *)

Keys == {"Error Message", "Note", "Time Series (Daily)", "Information"}

\* A decoded JSON answer: its top-level keys, and whether the text of its
\* 'Note' contains 'call frequency'.
Docs == {d \in [keys : SUBSET Keys, cf : BOOLEAN] : d.cf => "Note" \in d.keys}

\* What one HTTP request can produce.
Answers == [kind : {"RequestException", "JSONDecodeError"}, keys : {{}}, cf : {FALSE}]
           \cup {[kind |-> "json", keys |-> d.keys, cf |-> d.cf] : d \in Docs}

None == [kind |-> "None", keys |-> {}, cf |-> FALSE]
RecursionError == [kind |-> "RecursionError", keys |-> {}, cf |-> FALSE]
Data(a) == [kind |-> "data", keys |-> a.keys, cf |-> a.cf]

\* 'Note' in data and 'call frequency' in data['Note']
CallFrequencyNote(d) == "Note" \in d.keys /\ d.cf

\* Python truth value of a returned object: None and {} are false.
Truthy(d) == d.kind = "data" /\ d.keys # {}

HasTimeSeries(d) == d.kind = "data" /\ "Time Series (Daily)" \in d.keys

\* The ticker handed to download_symbol_data and the contents Metadata.Symbols
\* can have for it.
symbol_ticker == "AAPL"
SymbolRow(symbol, is_active) == [Symbol |-> symbol, IsActive |-> is_active]
SymbolTables == {{}, {SymbolRow(symbol_ticker, TRUE)}}

\* get_symbol_by_ticker finds a row
SymbolKnown(table, symbol) == \E r \in table : r.Symbol = symbol

\* The surroundings of a download: the answer to its first request, whether the
\* INSERT of the download record works, whether os.makedirs inside save_to_json
\* raises, whether the UPDATE of the record works.  Each field is the set of
\* outcomes still possible; the POO flow leaves the outcomes it ran under, and
\* the answer it received.
AnyEnv == [answers |-> Answers, record_created |-> BOOLEAN,
           save_raises |-> BOOLEAN, update_ok |-> BOOLEAN]

\* seconds slept by get_daily_* after a call-frequency note
note_sleep == 60

\* One request of get_daily_time_series / get_daily_adjusted: the rate limit,
\* the HTTP request, the checks of the answer.  A call-frequency note makes the
\* function sleep and call itself; the interpreter ends a call nested deeper
\* than its recursion limit with RecursionError.
ApiRequest ==
    /\ dl_pc = "call_api"
    /\ \E a \in (IF api_requests = 0 THEN env.answers ELSE Answers),
          over \in 0 .. MaxOversleep :
        LET again == a.kind = "json" /\ "Error Message" \notin a.keys
                     /\ CallFrequencyNote(a)
        IN  /\ RateLimited("AlphaVantageAPI", over, IF again THEN note_sleep ELSE 0)
            /\ api_requests' = api_requests + 1
            /\ IF a.kind # "json" \/ "Error Message" \in a.keys
               THEN /\ api_result' = None
                    /\ dl_pc' = "api_done"
                    /\ api_depth' = 0
               ELSE IF again
               THEN IF api_depth + 1 >= MaxRecursion
                    THEN /\ api_result' = RecursionError
                         /\ dl_pc' = "api_done"
                         /\ api_depth' = 0
                    ELSE /\ api_depth' = api_depth + 1
                         /\ UNCHANGED <<api_result, dl_pc>>
               ELSE /\ api_result' = Data(a)
                    /\ dl_pc' = "api_done"
                    /\ api_depth' = 0
    /\ UNCHANGED <<api_function, attempt, retry_delay, dl_sleeps,
                   download_status, dl_return>>
    /\ UNCHANGED <<db_vars, st_vars, fs_vars, web_vars, rest_vars>>

get_daily_time_series ==
    /\ api_function = "TIME_SERIES_DAILY"
    /\ ApiRequest

get_daily_adjusted ==
    /\ api_function # "TIME_SERIES_DAILY"
    /\ ApiRequest

----------------------------------------------------------------------------
(* StockDataDownloader.download_symbol_data (commented version) *)

max_retries == 3
initial_retry_delay == 60

SameDelay(d) == d

\* retry_delay *= 2
NextRetryDelay(d) == d * 2

NoReturn == [download_id |-> "none", data |-> None, success |-> FALSE]

DlInit ==
    /\ api_function \in {"TIME_SERIES_DAILY", "TIME_SERIES_DAILY_ADJUSTED"}
    /\ dl_pc = "idle"
    /\ attempt = 0
    /\ retry_delay = 0
    /\ dl_sleeps = <<>>
    /\ api_depth = 0
    /\ api_requests = 0
    /\ api_result = None
    /\ download_status = "none"
    /\ dl_return = NoReturn

\* Lines 100-146: the symbol lookup, the date range, the download record.
download_symbol_data_begin ==
    /\ dl_pc = "idle"
    /\ \E up_to_date \in BOOLEAN, record_created \in env.record_created :
        IF ~SymbolKnown(Symbols, symbol_ticker)
        THEN /\ dl_pc' = "returned"
             /\ dl_return' = [download_id |-> "None", data |-> None, success |-> FALSE]
             /\ UNCHANGED <<attempt, retry_delay, download_status>>
        ELSE IF up_to_date
        THEN /\ dl_pc' = "returned"
             /\ dl_return' = [download_id |-> "None", data |-> None, success |-> TRUE]
             /\ UNCHANGED <<attempt, retry_delay, download_status>>
        ELSE IF ~record_created
        THEN /\ dl_pc' = "returned"
             /\ dl_return' = [download_id |-> "None", data |-> None, success |-> FALSE]
             /\ UNCHANGED <<attempt, retry_delay, download_status>>
        ELSE /\ dl_pc' = "call_api"
             /\ download_status' = "Pending"
             /\ attempt' = 1
             /\ retry_delay' = initial_retry_delay
             /\ UNCHANGED dl_return
    /\ UNCHANGED <<api_function, dl_sleeps, api_depth, api_requests, api_result>>
    /\ UNCHANGED <<rate_vars, db_vars, st_vars, fs_vars, web_vars, rest_vars>>

\* time.sleep(retry_delay); retry_delay *= 2; next iteration of the loop
RetryAfterSleep ==
    /\ dl_sleeps' = Append(dl_sleeps, retry_delay)
    /\ now' = now + retry_delay
    /\ retry_delay' = NextRetryDelay(retry_delay)
    /\ attempt' = attempt + 1
    /\ dl_pc' = "call_api"
    /\ UNCHANGED <<download_status, dl_return>>

\* The except branch of the retry loop (lines 199-213).
AttemptFailed(update_ok) ==
    IF attempt < max_retries
    THEN RetryAfterSleep
    ELSE /\ download_status' = IF update_ok THEN "Failed" ELSE download_status
         /\ dl_return' = [download_id |-> "id", data |-> None, success |-> FALSE]
         /\ dl_pc' = "returned"
         /\ UNCHANGED <<now, dl_sleeps, retry_delay, attempt>>

\* Lines 162-213: what the loop body does with the outcome of the API call.
\* save_raises: os.makedirs inside save_to_json raises; update_ok: the UPDATE
\* of update_download_status succeeds (its errors are swallowed).
download_attempt_result ==
    /\ dl_pc = "api_done"
    /\ \E save_raises \in env.save_raises, update_ok \in env.update_ok :
        LET data == api_result
        IN  IF data.kind = "RecursionError" \/ ~Truthy(data)
               \/ "Error Message" \in data.keys
            THEN AttemptFailed(update_ok)
            ELSE IF CallFrequencyNote(data) /\ attempt < max_retries
            THEN RetryAfterSleep
            ELSE IF save_raises
            THEN AttemptFailed(update_ok)
            ELSE /\ download_status' = IF update_ok THEN "Completed" ELSE download_status
                 /\ dl_return' = [download_id |-> "id", data |-> data, success |-> TRUE]
                 /\ dl_pc' = "returned"
                 /\ UNCHANGED <<now, dl_sleeps, retry_delay, attempt>>
    /\ UNCHANGED <<api_function, api_depth, api_requests, api_result>>
    /\ UNCHANGED <<last_call_timestamp, prev_timestamp, slept, calls>>
    /\ UNCHANGED <<db_vars, st_vars, fs_vars, web_vars, rest_vars>>

DlNext ==
    \/ download_symbol_data_begin
    \/ get_daily_time_series
    \/ get_daily_adjusted
    \/ download_attempt_result

----------------------------------------------------------------------------
(* StockDataDownloader.download_symbol_data (POO version) *)

NoPooReturn == [success |-> FALSE, requests |-> 0, status |-> "none", faults |-> FALSE]

\* before any download: both flows see the same Metadata.Symbols
PlIdle ==
    /\ env = AnyEnv
    /\ poo_Symbols = Symbols
    /\ poo_pc = "idle"
    /\ poo_return = NoPooReturn

PlInit == Symbols \in SymbolTables /\ PlIdle

\* Lines 120-213, with AlphaVantageClient.get (api_client.py 104-150) and
\* MetadataManager.add_symbol: one call, no retry loop.
\* add: add_symbol stores the row and returns its id ("ok"), raises before the
\* row is stored ("raises"), or stores it and cannot read the id ("no_id");
\* save: save_to_json returns the path ("ok"), os.makedirs raises ("raises"),
\* or the write fails and it returns None ("None").
poo_download_symbol_data ==
    /\ poo_pc = "idle"
    /\ \E add \in {"ok", "raises", "no_id"}, record_created \in BOOLEAN,
          a \in Answers, over \in 0 .. MaxOversleep,
          save \in {"ok", "raises", "None"}, update_ok \in BOOLEAN :
        LET known == SymbolKnown(poo_Symbols, symbol_ticker)
            has_id == known \/ add = "ok"
            requested == has_id /\ record_created
            raised == a.kind # "json" \/ "Error Message" \in a.keys
            valid == requested /\ ~raised /\ a.keys # {}
                     /\ "Time Series (Daily)" \in a.keys
            saved == valid /\ save = "ok"
        IN  /\ poo_Symbols' = IF known \/ add = "raises" THEN poo_Symbols
                              ELSE poo_Symbols \cup {SymbolRow(symbol_ticker, TRUE)}
            /\ IF requested
               THEN RateLimited("AlphaVantageClient", over, 0)
               ELSE UNCHANGED rate_vars
            /\ poo_return' =
                 [success |-> saved,
                  requests |-> IF requested THEN 1 ELSE 0,
                  status |-> IF ~requested THEN "none"
                             ELSE IF ~update_ok THEN "In Progress"
                             ELSE IF saved THEN "Completed" ELSE "Failed",
                  faults |-> (~known /\ add # "ok") \/ (valid /\ save = "None")]
            /\ env' = [answers |-> IF requested THEN {a} ELSE Answers,
                       record_created |-> {record_created},
                       save_raises |-> {save = "raises"},
                       update_ok |-> {update_ok}]
            /\ poo_pc' = "returned"
    /\ UNCHANGED <<Symbols, dl_vars, db_vars, st_vars, fs_vars, web_vars, js_vars, sg_vars, md_vars,
                 lp_vars>>

\* The commented flow run on the same ticker, the same initial database and the
\* same surroundings, after the POO flow has returned.
commented_download_symbol_data ==
    /\ poo_pc = "returned"
    /\ DlNext

PipelineNext == poo_download_symbol_data \/ commented_download_symbol_data

----------------------------------------------------------------------------
(* process_json_file (commented) and JSONProcessor.process (POO) *)

Impls == {"commented", "poo"}

JsonKeys == {"1. open", "2. high", "3. low", "4. close", "5. volume",
             "5. adjusted close", "6. volume"}

KeyNo(k) == CASE k = "1. open" -> 1 [] k = "2. high" -> 2 [] k = "3. low" -> 3
              [] k = "4. close" -> 4 [] k = "5. volume" -> 5
              [] k = "5. adjusted close" -> 6 [] k = "6. volume" -> 7

\* The dates of a full file, in the order of the file.
Dates == <<"2024-01-03", "2024-01-02">>

\* A value of an entry: absent, or a text that is an integer ("int": the
\* digits of n), a decimal ("dec": n.5) or no number at all ("bad").
ValueKinds == {"absent", "int", "dec", "bad"}
Absent == [kind |-> "absent", n |-> 0]
Value(kind, pos, k) ==
    IF kind = "absent" THEN Absent ELSE [kind |-> kind, n |-> 10 * pos + KeyNo(k)]

\* float(text) and int(text): int() rejects a decimal text.
CanParseFloat(v) == v.kind \in {"int", "dec"}
ParseFloat(v) == <<v.n, IF v.kind = "dec" THEN 5 ELSE 0>>
CanParseInt(v) == v.kind = "int"
ParseInt(v) == v.n

\* The entry the API writes for the date at position pos: prices as decimal
\* texts, the volume as an integer text; the adjusted format has
\* '5. adjusted close' and '6. volume' instead of '5. volume'.
ApiEntry(adjusted, pos) ==
    [date |-> Dates[pos],
     values |-> [k \in JsonKeys |->
        IF k = "5. volume" THEN Value(IF adjusted THEN "absent" ELSE "int", pos, k)
        ELSE IF k = "6. volume" THEN Value(IF adjusted THEN "int" ELSE "absent", pos, k)
        ELSE IF k = "5. adjusted close"
        THEN Value(IF adjusted THEN "dec" ELSE "absent", pos, k)
        ELSE Value("dec", pos, k)]]

\* A file differs from what the API writes in some values: d gives the
\* entry, the key and the kind of value found there.
Defects(len) == [pos : 1 .. len, key : JsonKeys, kind : ValueKinds]

\* The series with the value the defect d names replaced.
Damage(series, d) ==
    LET entry == series[d.pos]
    IN  [series EXCEPT ![d.pos] =
            [entry EXCEPT !.values =
                [entry.values EXCEPT ![d.key] = Value(d.kind, d.pos, d.key)]]]

\* The series within k replaced values of a series of S.
RECURSIVE SeriesNear(_, _, _)
SeriesNear(S, len, k) ==
    IF k = 0 THEN S
    ELSE SeriesNear(S \cup {Damage(series, d) : series \in S, d \in Defects(len)},
                    len, k - 1)

\* The files within k values of a file of len entries in one format.
DocsNear(adjusted, len, k) ==
    {[kind |-> "series", series |-> series] :
        series \in SeriesNear({[pos \in 1 .. len |-> ApiEntry(adjusted, pos)]}, len, k)}

SeriesDocs(k) ==
    UNION {DocsNear(adjusted, len, k) : adjusted \in BOOLEAN, len \in 0 .. Len(Dates)}

\* "unreadable": json.load raises; "no_section": a JSON object without
\* 'Time Series (Daily)'.
JsonDocs(k) == SeriesDocs(k) \cup {[kind |-> "unreadable", series |-> <<>>],
                                   [kind |-> "no_section", series |-> <<>>]}

JsonNames == {<<"AAPL", "20240103", "093000.json">>, <<"MSFT.json">>}

NoneNone == [none |-> TRUE, symbol |-> "None", data_list |-> <<>>]
Returned(symbol, data_list) == [none |-> FALSE, symbol |-> symbol, data_list |-> data_list]

\* filename.split('_')[0]
FirstPart(filename) == Head(filename)

AnyEntryAdjusted(time_series) ==
    \E i \in DOMAIN time_series : time_series[i].values["5. adjusted close"].kind # "absent"

\* Lines 144-148: the loop over the entries ends after the first one.
FirstEntryAdjusted(time_series) ==
    /\ time_series # <<>>
    /\ time_series[1].values["5. adjusted close"].kind # "absent"

\* stock_storage_commented.py 127-185.
ProcessJsonFile(filename, doc) ==
    IF doc.kind = "unreadable" THEN NoneNone
    ELSE IF doc.kind # "series" THEN NoneNone
    ELSE LET time_series == doc.series
             is_adjusted == FirstEntryAdjusted(time_series)
             volume_key == IF ~is_adjusted THEN "5. volume" ELSE "6. volume"
             raises(values) ==
                 \/ \E k \in {"1. open", "2. high", "3. low", "4. close"} : ~CanParseFloat(values[k])
                 \/ ~CanParseInt(values[volume_key])
                 \/ is_adjusted /\ ~CanParseFloat(values["5. adjusted close"])
             item(e) == [date |-> e.date,
                         open |-> ParseFloat(e.values["1. open"]),
                         high |-> ParseFloat(e.values["2. high"]),
                         low |-> ParseFloat(e.values["3. low"]),
                         close |-> ParseFloat(e.values["4. close"]),
                         volume |-> ParseInt(e.values[volume_key]),
                         adjusted_close |-> IF is_adjusted
                                            THEN ParseFloat(e.values["5. adjusted close"])
                                            ELSE ParseFloat(e.values["4. close"])]
         IN  IF \E i \in DOMAIN time_series : raises(time_series[i].values)
             THEN NoneNone
             ELSE Returned(FirstPart(filename),
                           [i \in DOMAIN time_series |-> item(time_series[i])])

\* stock_storage_poo.py 122-184, JSONProcessor._process_json_data.
ProcessJsonData(data, symbol) ==
    IF data.kind = "series"
    THEN LET time_series == data.series
             is_adjusted == IF time_series = <<>> THEN FALSE
                            ELSE time_series[1].values["5. adjusted close"].kind # "absent"
             Volume(values) == IF is_adjusted THEN values["6. volume"] ELSE values["5. volume"]
             Converts(values) ==
                 /\ CanParseFloat(values["1. open"]) /\ CanParseFloat(values["2. high"])
                 /\ CanParseFloat(values["3. low"]) /\ CanParseFloat(values["4. close"])
                 /\ CanParseInt(Volume(values))
                 /\ is_adjusted => CanParseFloat(values["5. adjusted close"])
         IN  IF \A i \in DOMAIN time_series : Converts(time_series[i].values)
             THEN Returned(symbol,
                    [i \in DOMAIN time_series |->
                       LET values == time_series[i].values
                           close == ParseFloat(values["4. close"])
                       IN  [date |-> time_series[i].date,
                            open |-> ParseFloat(values["1. open"]),
                            high |-> ParseFloat(values["2. high"]),
                            low |-> ParseFloat(values["3. low"]),
                            close |-> close,
                            volume |-> ParseInt(Volume(values)),
                            adjusted_close |-> IF is_adjusted
                                               THEN ParseFloat(values["5. adjusted close"])
                                               ELSE close]])
             ELSE NoneNone
    ELSE NoneNone

\* stock_storage_poo.py 80-120, for the path of an existing file.
JSONProcessorProcess(filename, doc) ==
    IF doc.kind = "unreadable" THEN NoneNone
    ELSE ProcessJsonData(doc, FirstPart(filename))

\* No implementation has processed the file yet.
JsIdle ==
    /\ json_done = {}
    /\ json_out = [i \in Impls |-> NoneNone]

JsInit ==
    /\ json_file \in JsonNames
    /\ json_doc \in JsonDocs(MaxDefects)
    /\ JsIdle

process_json_file ==
    /\ "commented" \notin json_done
    /\ json_done' = json_done \cup {"commented"}
    /\ json_out' = [json_out EXCEPT !["commented"] = ProcessJsonFile(json_file, json_doc)]
    /\ UNCHANGED <<json_file, json_doc>>
    /\ UNCHANGED <<rate_vars, dl_vars, db_vars, st_vars, fs_vars, web_vars, pl_vars, sg_vars, md_vars,
                 lp_vars>>

JSONProcessor_process ==
    /\ "poo" \notin json_done
    /\ json_done' = json_done \cup {"poo"}
    /\ json_out' = [json_out EXCEPT !["poo"] = JSONProcessorProcess(json_file, json_doc)]
    /\ UNCHANGED <<json_file, json_doc>>
    /\ UNCHANGED <<rate_vars, dl_vars, db_vars, st_vars, fs_vars, web_vars, pl_vars, sg_vars, md_vars,
                 lp_vars>>

JsNext == process_json_file \/ JSONProcessor_process

----------------------------------------------------------------------------
(* Singleton and the classes that derive from it *)

SingletonClasses == {"ConfigManager", "AlphaVantageClient", "MetadataManager"}

NoObject == 0

\* ConfigManager.config: not an attribute yet, or the loaded settings.
NoSettings == [loaded |-> FALSE, ALPHA_VANTAGE_API_KEY |-> ""]
\* AlphaVantageClient.api_key: not an attribute yet, or its value.
NoKey == [set |-> FALSE, value |-> ""]

\* The object object.__new__ returns: no attribute set.
Blank(cls) == [class |-> cls, settings |-> NoSettings, config |-> NoObject,
               api_key |-> NoKey, db |-> NoObject]

\* os.getenv('ALPHA_VANTAGE_API_KEY', '') at the time of a call, the api_key
\* arguments ("" stands for None) and the values handed to ConfigManager.set.
EnvKeys == {"", "ENVKEY"}
ApiKeyArgs == {"", "KEY1", "KEY2"}
SetKeys == {"SETKEY"}

NotInInstances(w, cls) == FALSE

\* cls in cls._instances
InInstances(w, cls) == w.instances[cls] # NoObject

\* Singleton.__new__ on the world w = [instances, heap].
SingletonNew(w, cls) ==
    IF ~InInstances(w, cls)
    THEN [instances |-> [w.instances EXCEPT ![cls] = Len(w.heap) + 1],
          heap |-> Append(w.heap, Blank(cls))]
    ELSE w

\* ConfigManager(): __new__, then __init__ on the object returned.
ConfigManagerNew(w, env_key) ==
    LET w1 == SingletonNew(w, "ConfigManager")
        self == w1.instances["ConfigManager"]
    IN  IF w1.heap[self].settings.loaded THEN w1
        ELSE [w1 EXCEPT !.heap[self].settings =
                 [loaded |-> TRUE, ALPHA_VANTAGE_API_KEY |-> env_key]]

\* __init__ of AlphaVantageClient goes past its hasattr check
ClientInitRuns(w) ==
    LET w1 == SingletonNew(w, "AlphaVantageClient")
    IN  ~w1.heap[w1.instances["AlphaVantageClient"]].api_key.set

\* AlphaVantageClient(api_key): all but the reset of last_call_timestamp.
AlphaVantageClientNew(w, api_key, env_key) ==
    LET w1 == SingletonNew(w, "AlphaVantageClient")
        self == w1.instances["AlphaVantageClient"]
    IN  IF w1.heap[self].api_key.set THEN w1
        ELSE LET w2 == ConfigManagerNew(w1, env_key)
                 config == w2.instances["ConfigManager"]
                 key == IF api_key # "" THEN api_key
                        ELSE w2.heap[config].settings.ALPHA_VANTAGE_API_KEY
             IN  [w2 EXCEPT !.heap[self].config = config,
                            !.heap[self].api_key = [set |-> TRUE, value |-> key]]

\* MetadataManager(): the first __init__ creates a SQLServerConnector, whose
\* __init__ calls ConfigManager().
MetadataManagerNew(w, env_key) ==
    LET w1 == SingletonNew(w, "MetadataManager")
        self == w1.instances["MetadataManager"]
    IN  IF w1.heap[self].db # NoObject THEN w1
        ELSE LET w2 == ConfigManagerNew(w1, env_key)
                 connector == [Blank("SQLServerConnector") EXCEPT
                                  !.config = w2.instances["ConfigManager"]]
                 db == Len(w2.heap) + 1
             IN  [instances |-> w2.instances,
                  heap |-> [Append(w2.heap, connector) EXCEPT ![self].db = db]]

NoCall == [class |-> "none", api_key |-> ""]

SgInit ==
    /\ instances = [c \in SingletonClasses |-> NoObject]
    /\ heap = <<>>
    /\ returned = [c \in SingletonClasses |-> {}]
    /\ sg_calls = 0
    /\ sg_last = NoCall

\* What a constructor call of cls that leaves the world w leaves behind.
Constructed(cls, api_key, w) ==
    /\ sg_calls < MaxConstructions
    /\ instances' = w.instances
    /\ heap' = w.heap
    /\ returned' = [returned EXCEPT ![cls] = @ \cup {w.instances[cls]}]
    /\ sg_calls' = sg_calls + 1
    /\ sg_last' = [class |-> cls, api_key |-> api_key]

World == [instances |-> instances, heap |-> heap]

construct_ConfigManager ==
    /\ \E env_key \in EnvKeys :
          Constructed("ConfigManager", "", ConfigManagerNew(World, env_key))
    /\ UNCHANGED <<rate_vars, dl_vars, db_vars, st_vars, fs_vars, web_vars, pl_vars, js_vars, md_vars,
                 lp_vars>>

construct_AlphaVantageClient ==
    /\ \E api_key \in ApiKeyArgs, env_key \in EnvKeys :
          Constructed("AlphaVantageClient", api_key,
                      AlphaVantageClientNew(World, api_key, env_key))
    /\ last_call_timestamp' =
          IF ClientInitRuns(World)
          THEN [last_call_timestamp EXCEPT !["AlphaVantageClient"] = 0]
          ELSE last_call_timestamp
    /\ UNCHANGED <<now, prev_timestamp, slept, calls>>
    /\ UNCHANGED <<dl_vars, db_vars, st_vars, fs_vars, web_vars, pl_vars, js_vars, md_vars,
                 lp_vars>>

construct_MetadataManager ==
    /\ \E env_key \in EnvKeys :
          Constructed("MetadataManager", "", MetadataManagerNew(World, env_key))
    /\ UNCHANGED <<rate_vars, dl_vars, db_vars, st_vars, fs_vars, web_vars, pl_vars, js_vars, md_vars,
                 lp_vars>>

\* ConfigManager.set('ALPHA_VANTAGE_API_KEY', value) on the instance
ConfigManager_set ==
    /\ instances["ConfigManager"] # NoObject
    /\ \E value \in SetKeys :
          heap' = [heap EXCEPT ![instances["ConfigManager"]].settings.ALPHA_VANTAGE_API_KEY = value]
    /\ UNCHANGED <<instances, returned, sg_calls, sg_last>>
    /\ UNCHANGED <<rate_vars, dl_vars, db_vars, st_vars, fs_vars, web_vars, pl_vars, js_vars, md_vars,
                 lp_vars>>

\* handle_rate_limit called on the client once it exists
client_handle_rate_limit ==
    /\ instances["AlphaVantageClient"] # NoObject
    /\ handle_rate_limit

SgNext ==
    \/ construct_ConfigManager
    \/ construct_AlphaVantageClient
    \/ construct_MetadataManager
    \/ ConfigManager_set
    \/ client_handle_rate_limit

----------------------------------------------------------------------------
(* MetadataManager.get_symbols_to_download *)

MetaSymbols == {"AAPL", "MSFT"}

SecondsPerDay == 86400
\* the 7 of `.days >= 7`
refresh_days == 7

\* A LastDownloadDate: NULL, or a time in seconds.
Null == [null |-> TRUE, t |-> 0]
At(t) == [null |-> FALSE, t |-> t]

\* How long before StartClock the rows were written: a week and a second, a
\* week, a second less, eight days, one day, and an hour in the future.
Ages == {refresh_days * SecondsPerDay + 1, refresh_days * SecondsPerDay,
         refresh_days * SecondsPerDay - 1, (refresh_days + 1) * SecondsPerDay,
         SecondsPerDay, 0 - 3600}

LastDownloadDates == {Null} \cup {At(StartClock - a) : a \in Ages}

\* Metadata.Symbols with at most one row per ticker
MetaSymbolTables ==
    {t \in SUBSET {SymbolRow(s, a) : s \in MetaSymbols, a \in BOOLEAN} :
        \A r1, r2 \in t : r1.Symbol = r2.Symbol => r1 = r2}

DownloadTables ==
    {t \in SUBSET [Symbol : MetaSymbols, LastDownloadDate : LastDownloadDates] :
        \A s \in MetaSymbols : Cardinality({r \in t : r.Symbol = s}) <= MaxDownloads}

MdIdle ==
    /\ md_pc = "idle"
    /\ md_error = "none"
    /\ md_result = {}

MdInit == Downloads \in DownloadTables /\ MdIdle

MdOff == Downloads = {} /\ MdIdle

DaysRoundedUp(a, b) == (a - b + SecondsPerDay - 1) \div SecondsPerDay

\* (a - b).days of two datetimes given in seconds
TimedeltaDays(a, b) == (a - b) \div SecondsPerDay

NoDownload == [found |-> FALSE, LastDownloadDate |-> Null]

\* get_last_download: SELECT TOP 1 ... ORDER BY LastDownloadDate DESC; NULL
\* sorts below every date.
LastDownload(table, symbol) ==
    LET rows == {r \in table : r.Symbol = symbol}
        dated == {r \in rows : ~r.LastDownloadDate.null}
    IN  IF rows = {} THEN NoDownload
        ELSE IF dated = {} THEN [found |-> TRUE, LastDownloadDate |-> Null]
        ELSE [found |-> TRUE,
              LastDownloadDate |->
                 (CHOOSE r \in dated :
                     \A q \in dated : q.LastDownloadDate.t <= r.LastDownloadDate.t).LastDownloadDate]

\* Lines 427-452.  failing: the query that raises; get_all_symbols then
\* returns [] and get_last_download returns None.
get_symbols_to_download ==
    /\ md_pc = "idle"
    /\ \E failing \in {"none", "get_all_symbols", "get_last_download"} :
        LET symbols == IF failing = "get_all_symbols" THEN {}
                       ELSE {r \in Symbols : r.IsActive}
            last_download(symbol) ==
                IF failing = "get_last_download" THEN NoDownload
                ELSE LastDownload(Downloads, symbol)
            due(symbol) ==
                LET last == last_download(symbol)
                IN  \/ ~last.found
                    \/ /\ ~last.LastDownloadDate.null
                       /\ TimedeltaDays(now, last.LastDownloadDate.t) >= refresh_days
        IN  /\ md_result' = {r.Symbol : r \in {q \in symbols : due(q.Symbol)}}
            /\ md_error' = failing
    /\ md_pc' = "returned"
    /\ UNCHANGED Downloads
    /\ UNCHANGED <<rate_vars, dl_vars, db_vars, st_vars, fs_vars, web_vars, pl_vars, js_vars, sg_vars,
                 lp_vars>>

MdNext == get_symbols_to_download

----------------------------------------------------------------------------
(* The first download script: one request per symbol of symbols_lista *)

\* time.sleep(12) at the end of an iteration whose rows were committed
symbol_pause == 12

\* The rows of Metadata.Symbols the query returns, ordered by SymbolID.
SymbolLists ==
    UNION {{[k \in 1 .. n |-> [SymbolID |-> k, Symbol |-> f[k]]] : f \in [1 .. n -> MetaSymbols]}
           : n \in 0 .. MaxSymbols}

LoopIdle ==
    /\ lp_pc = "start"
    /\ lp_i = 0
    /\ request_times = <<>>
    /\ outcomes = <<>>
    /\ cursor_rows = {}
    /\ committed_rows = {}

LoopInit == symbols_lista \in SymbolLists /\ LoopIdle

LoopOff == symbols_lista = <<>> /\ LoopIdle

\* The seconds of time.sleep an iteration ends with: the call is the last
\* statement of the try block and is skipped by every exception.
PauseAfter(outcome) == IF outcome = "success" THEN symbol_pause ELSE 0

\* How obtener_historico_accion ends for the answer a.
RequestOutcome(a) ==
    IF a.kind # "json" THEN "request_error"
    ELSE IF "Time Series (Daily)" \in a.keys THEN "data"
    ELSE IF "Note" \in a.keys THEN "rate_limit"
    ELSE "api_error"

\* if not symbols_lista: exit(); otherwise the cursor is created and the loop begins
Downloader_start ==
    /\ lp_pc = "start"
    /\ lp_pc' = IF symbols_lista = <<>> THEN "exited" ELSE "loop"
    /\ UNCHANGED <<symbols_lista, lp_i, request_times, outcomes, cursor_rows, committed_rows>>
    /\ UNCHANGED <<rate_vars, dl_vars, db_vars, st_vars, fs_vars, web_vars, pl_vars, js_vars,
                 sg_vars, md_vars>>

\* One iteration of `for symbol_data in symbols_lista`: the request, the
\* inserts, the commit and the sleep, or the except branch.  The request and
\* the inserts take `took` seconds; the sleep lasts `over` seconds longer
\* than requested.
process_symbol ==
    /\ lp_pc = "loop"
    /\ lp_i < Len(symbols_lista)
    /\ \E a \in Answers, insert \in {"ok", "execute", "commit"},
          took \in 0 .. MaxOversleep, over \in 0 .. MaxOversleep :
        LET symbol_id == symbols_lista[lp_i + 1].SymbolID
            answered == RequestOutcome(a)
            outcome == IF answered # "data" THEN answered
                       ELSE IF insert # "ok" THEN "insert_error"
                       ELSE "success"
            pause == PauseAfter(outcome)
        IN  /\ request_times' = Append(request_times, now)
            /\ outcomes' = Append(outcomes, outcome)
            /\ cursor_rows' = IF outcome = "insert_error" THEN cursor_rows \cup {symbol_id}
                              ELSE IF outcome = "success" THEN {}
                              ELSE cursor_rows
            /\ committed_rows' = IF outcome = "success"
                                 THEN committed_rows \cup cursor_rows \cup {symbol_id}
                                 ELSE committed_rows
            /\ now' = now + took + (IF pause > 0 THEN pause + over ELSE 0)
    /\ lp_i' = lp_i + 1
    /\ UNCHANGED <<symbols_lista, lp_pc>>
    /\ UNCHANGED <<last_call_timestamp, prev_timestamp, slept, calls>>
    /\ UNCHANGED <<dl_vars, db_vars, st_vars, fs_vars, web_vars, pl_vars, js_vars, sg_vars,
                 md_vars>>

\* cursor.close(); conexion.close(): what was not committed is rolled back
Downloader_close ==
    /\ lp_pc = "loop"
    /\ lp_i = Len(symbols_lista)
    /\ lp_pc' = "closed"
    /\ cursor_rows' = {}
    /\ UNCHANGED <<symbols_lista, lp_i, request_times, outcomes, committed_rows>>
    /\ UNCHANGED <<rate_vars, dl_vars, db_vars, st_vars, fs_vars, web_vars, pl_vars, js_vars,
                 sg_vars, md_vars>>

LoopNext == Downloader_start \/ process_symbol \/ Downloader_close

----------------------------------------------------------------------------
(* StockDataStorage.store_stock_data *)


\* batch_size = 1000
batch_size == 1000

\* A slice of a values_list: the rows at positions lo..hi (1-based) of the
\* data_list that came from src.  values_list has one tuple per item of
\* data_list, in the same order.
Slice(src, lo, hi) == [src |-> src, lo |-> lo, hi |-> hi]

SliceLen(b) == b.hi - b.lo + 1

ShortBatch(src, n, i) == Slice(src, i + 1, Min(i + batch_size, n) - 1)

\* batch = values_list[i:i+batch_size], for 0 <= i < n = len(values_list)
Batch(src, n, i) == Slice(src, i + 1, Min(i + batch_size, n))

StoreInit ==
    /\ impl \in Impls
    /\ StockPrices = <<>>
    /\ pending = <<>>
    /\ st_pc = "idle"
    /\ st_src = "none"
    /\ st_n = 0
    /\ st_i = 0
    /\ total_inserted = 0
    /\ st_return = 0
    /\ batches = <<>>
    /\ commits = 0
    /\ st_error = "none"

\* Lines 207-240: the checks before the loop, values_list (built only when
\* they pass) and the loop's initial state.
StoreBegin(src, n, symbol_known) ==
    /\ st_src' = src
    /\ st_n' = IF symbol_known THEN n ELSE 0
    /\ st_i' = 0
    /\ total_inserted' = 0
    /\ batches' = <<>>
    /\ commits' = 0
    /\ st_error' = "none"
    /\ IF n = 0 \/ ~symbol_known
       THEN st_pc' = "returned" /\ st_return' = 0
       ELSE st_pc' = "loop" /\ UNCHANGED st_return
    /\ UNCHANGED <<impl, StockPrices, pending>>

\* A direct call of store_stock_data(symbol, data_list, download_id).
store_stock_data_call ==
    /\ st_pc = "idle"
    /\ \E n \in 0 .. MaxRows, symbol_known \in BOOLEAN :
        StoreBegin("call", n, symbol_known)
    /\ UNCHANGED <<rate_vars, dl_vars, fs_vars, web_vars, rest_vars>>

\* The value returned from the except branch.
ReturnOnError == IF impl = "commented" THEN 0 ELSE total_inserted

\* One iteration of the batch loop: executemany, commit, the counter; the
\* except branch (rollback, return) when one of them raises; the return after
\* the last batch.  The poo connector swallows an error of commit.
store_batch ==
    /\ st_pc = "loop"
    /\ \E outcome \in {"ok", "executemany_raises", "commit_fails"} :
        LET batch == Batch(st_src, st_n, st_i)
            raised == outcome = "executemany_raises"
                      \/ (outcome = "commit_fails" /\ impl = "commented")
            last == st_i + batch_size >= st_n
        IN  /\ batches' = Append(batches, batch)
            /\ st_error' = CASE outcome = "executemany_raises" -> "executemany"
                             [] outcome = "commit_fails" -> "commit"
                             [] OTHER -> st_error
            /\ IF raised
               THEN /\ pending' = <<>>
                    /\ st_return' = ReturnOnError
                    /\ st_pc' = "returned"
                    /\ UNCHANGED <<StockPrices, commits, total_inserted, st_i>>
               ELSE /\ IF outcome = "ok"
                       THEN /\ StockPrices' = StockPrices \o Append(pending, batch)
                            /\ pending' = <<>>
                            /\ commits' = commits + 1
                       ELSE /\ pending' = Append(pending, batch)
                            /\ UNCHANGED <<StockPrices, commits>>
                    /\ total_inserted' = total_inserted + SliceLen(batch)
                    /\ st_i' = st_i + batch_size
                    /\ IF last
                       THEN st_pc' = "returned" /\ st_return' = total_inserted'
                       ELSE UNCHANGED <<st_pc, st_return>>
    /\ UNCHANGED <<impl, st_src, st_n>>
    /\ UNCHANGED <<rate_vars, dl_vars, fs_vars, web_vars, rest_vars>>

StoreNext == store_stock_data_call \/ store_batch

----------------------------------------------------------------------------
(* StockDataStorage.process_all_json_files *)

Files == {"AAA_1.json", "BBB_1.json"}

\* What a file holds and what the metadata tables hold for its symbol:
\* series: the JSON has a 'Time Series (Daily)' section; rows: its dates;
\* meta: "ok", "no_symbol" (ticker not in Metadata.Symbols) or
\* "no_download" (no row in Metadata.Downloads).
FileMetas == [series : BOOLEAN, rows : {0, 1, batch_size + 1},
              meta : {"ok", "no_symbol", "no_download"}]

FsInit ==
    /\ file_meta \in [Files -> {m \in FileMetas : ~m.series => m.rows = 0}]
    /\ data_dir = Files
    /\ processed_dir = {}
    /\ fs_pc = "idle"
    /\ json_files = <<>>
    /\ results = <<>>
    /\ runs = 0

\* os.listdir returns the entries in arbitrary order.
Listings(S) == {q \in UNION {[1 .. Cardinality(S) -> S]} :
                  \A a, b \in DOMAIN q : a # b => q[a] # q[b]}

\* Lines 316-330: the listing of the data directory.
process_all_json_files ==
    /\ fs_pc = "idle"
    /\ runs < MaxRuns
    /\ IF data_dir = {}
       THEN /\ runs' = runs + 1
            /\ results' = <<>>
            /\ UNCHANGED <<fs_pc, json_files>>
       ELSE /\ \E q \in Listings(data_dir) : json_files' = q
            /\ fs_pc' = "next_file"
            /\ results' = <<>>
            /\ UNCHANGED runs
    /\ UNCHANGED <<file_meta, data_dir, processed_dir>>
    /\ UNCHANGED <<rate_vars, dl_vars, db_vars, st_vars, web_vars, rest_vars>>

\* Lines 333-359: the metadata lookups of one file, process_json_file and the
\* call of store_stock_data (process_and_store_file).
process_file ==
    /\ fs_pc = "next_file"
    /\ json_files # <<>>
    /\ LET f == Head(json_files)
           m == file_meta[f]
       IN  IF m.meta # "ok"
           THEN /\ json_files' = Tail(json_files)
                /\ UNCHANGED <<fs_pc, st_vars>>
           ELSE /\ fs_pc' = "stored"
                /\ StoreBegin(f, IF m.series THEN m.rows ELSE 0, TRUE)
                /\ UNCHANGED json_files
    /\ UNCHANGED <<file_meta, data_dir, processed_dir, results, runs>>
    /\ UNCHANGED <<rate_vars, dl_vars, db_vars, web_vars, rest_vars>>

\* Lines 361-379: the result entry and the move to data/processed; os.rename
\* may raise, which is only reported.
move_file ==
    /\ fs_pc = "stored"
    /\ st_pc = "returned"
    /\ LET f == Head(json_files)
       IN  /\ results' = Append(results, [file |-> f, inserted_count |-> st_return])
           /\ \E renamed \in BOOLEAN :
                IF renamed
                THEN /\ data_dir' = data_dir \ {f}
                     /\ processed_dir' = processed_dir \cup {f}
                ELSE UNCHANGED <<data_dir, processed_dir>>
    /\ json_files' = Tail(json_files)
    /\ fs_pc' = "next_file"
    /\ UNCHANGED <<file_meta, runs>>
    /\ UNCHANGED <<rate_vars, dl_vars, db_vars, st_vars, web_vars, rest_vars>>

\* Line 382: the end of the loop over the listing.
process_all_json_files_return ==
    /\ fs_pc = "next_file"
    /\ json_files = <<>>
    /\ fs_pc' = "idle"
    /\ runs' = runs + 1
    /\ UNCHANGED <<file_meta, data_dir, processed_dir, json_files, results>>
    /\ UNCHANGED <<rate_vars, dl_vars, db_vars, st_vars, web_vars, rest_vars>>

FsNext ==
    \/ process_all_json_files
    \/ process_file
    \/ store_batch
    \/ move_file
    \/ process_all_json_files_return

----------------------------------------------------------------------------
(* webapp/app.py: POST /descargar *)

\* Text is a sequence of character codes; two texts compare as Python
\* compares str values.
Digit(n) == 48 + n
Dash == 45

RECURSIVE Pow10(_)
Pow10(w) == IF w = 0 THEN 1 ELSE 10 * Pow10(w - 1)

RECURSIVE Decimal(_)
\* str(n) for n >= 0
Decimal(n) == IF n < 10 THEN <<Digit(n)>> ELSE Append(Decimal(n \div 10), Digit(n % 10))

\* n written with w digits, zero-filled
ZeroFilled(n, w) == [i \in 1 .. w |-> Digit((n \div Pow10(w - i)) % 10)]

RECURSIVE StrGreater(_, _)
\* a > b on str values
StrGreater(a, b) ==
    IF a = <<>> THEN FALSE
    ELSE IF b = <<>> THEN TRUE
    ELSE IF Head(a) # Head(b) THEN Head(a) > Head(b)
    ELSE StrGreater(Tail(a), Tail(b))

IsLeap(y) == (y % 4 = 0 /\ y % 100 # 0) \/ y % 400 = 0

DaysIn(y, m) ==
    IF m \in {4, 6, 9, 11} THEN 30
    ELSE IF m = 2 THEN (IF IsLeap(y) THEN 29 ELSE 28)
    ELSE 31

\* Values of a date field of the form: absent or empty, a text that does not
\* have the shape digits-digits-digits, or a text made of a four-digit year, a
\* month and a day, the last two written with or without a leading zero.
Years == {999, 2024}
Months == {2, 12, 13}
Days == {1, 30}

MissingField == [kind |-> "missing", y |-> 0, m |-> 0, d |-> 0, zeros |-> FALSE]
OtherText == [kind |-> "other", y |-> 0, m |-> 0, d |-> 0, zeros |-> FALSE]
DateFields == {MissingField, OtherText}
              \cup [kind : {"ymd"}, y : Years, m : Months, d : Days, zeros : BOOLEAN]

\* datetime.strptime(text, '%Y-%m-%d'): the date, or ValueError
NoDate == [ok |-> FALSE, y |-> 0, m |-> 0, d |-> 0]

Strptime(f) ==
    IF f.kind = "ymd" /\ f.m \in 1 .. 12 /\ f.d \in 1 .. DaysIn(f.y, f.m)
    THEN [ok |-> TRUE, y |-> f.y, m |-> f.m, d |-> f.d]
    ELSE NoDate

StrftimeNoZeroFill(t) == Decimal(t.y) \o <<Dash>> \o Decimal(t.m) \o <<Dash>> \o Decimal(t.d)

\* datetime.strftime('%Y-%m-%d')
Strftime(t) ==
    ZeroFilled(t.y, 4) \o <<Dash>> \o ZeroFilled(t.m, 2) \o <<Dash>> \o ZeroFilled(t.d, 2)

SymbolIds == {"1", "2"}          \* rows of Metadata.Symbols
SymbolIdFields == {"", "1", "2", "9"}

Forms == [symbol_id : SymbolIdFields, fecha_inicio : DateFields, fecha_fin : DateFields]

NoForm == [symbol_id |-> "", fecha_inicio |-> MissingField, fecha_fin |-> MissingField]

\* Lines 70-84: the validation; TRUE when the handler goes on.
FormAccepted(form) ==
    LET fecha_inicio == Strptime(form.fecha_inicio)
        fecha_fin == Strptime(form.fecha_fin)
    IN  /\ form.symbol_id # ""
        /\ form.fecha_inicio.kind # "missing"
        /\ form.fecha_fin.kind # "missing"
        /\ fecha_inicio.ok
        /\ fecha_fin.ok
        /\ ~StrGreater(Strftime(fecha_inicio), Strftime(fecha_fin))

\* Rows stored for a symbol by request number k (0: before the first request).
WebSrc(symbol_id, k) == [symbol_id |-> symbol_id, request |-> k]

RECURSIVE Inserted(_, _, _)
\* the table after the INSERTs of rows 1..m of src, executed one by one
Inserted(table, src, m) ==
    IF m = 0 THEN table
    ELSE Append(Inserted(table, src, m - 1), Slice(src, m, m))

\* DELETE FROM AVData.StockPrices WHERE SymbolID = :symbol_id
Deleted(table, symbol_id) == SelectSeq(table, LAMBDA r : r.src.symbol_id # symbol_id)

\* Lines 113-150: the table after the block `with connection.begin()`.  The
\* statements run in order until one raises (fail_at = 0: the DELETE,
\* k: the INSERT of row k, rows + 1: none); the except clause inside the
\* block catches the error, so the block ends normally and commits what was
\* executed before it.
AfterTransaction(table, symbol_id, src, rows, fail_at) ==
    IF fail_at = 0 THEN table
    ELSE Inserted(Deleted(table, symbol_id), src, Min(rows, fail_at - 1))

WebInit ==
    /\ web_req = NoForm
    /\ web_response = "none"
    /\ web_connects = 0
    /\ web_downloads = 0
    /\ web_failed = "none"
    /\ web_before = <<>>
    /\ web_requests = 0

\* Rows in the table before the first request.
WebTables == {<<>>,
              <<Slice(WebSrc("1", 0), 1, 1)>>,
              <<Slice(WebSrc("1", 0), 1, 1), Slice(WebSrc("2", 0), 1, 1)>>}

\* The whole handler.  connect_ok: conectar_sql_server returns an engine
\* (it raises otherwise); download: descargar_datos_yahoo raises ("raises"),
\* returns nothing ("empty") or a DataFrame of `rows` rows ("rows");
\* fail_at: the statement of the transaction that raises; commit_ok: the
\* commit at the end of the block succeeds.
descargar ==
    /\ web_response = "none"
    /\ \E form \in Forms, connect_ok \in BOOLEAN,
          download \in {"raises", "empty", "rows"}, rows \in 1 .. MaxWebRows,
          fail_at \in 0 .. MaxWebRows + 1, commit_ok \in BOOLEAN :
        LET accepted == FormAccepted(form)
            found == form.symbol_id \in SymbolIds
            downloads == accepted /\ connect_ok /\ found
            transacts == downloads /\ download = "rows"
            src == WebSrc(form.symbol_id, web_requests + 1)
        IN  /\ fail_at <= rows + 1
            /\ web_req' = form
            /\ web_response' = "redirect"
            /\ web_before' = StockPrices
            /\ web_connects' = IF accepted THEN 1 ELSE 0
            /\ web_downloads' = IF downloads THEN 1 ELSE 0
            /\ web_failed' = IF transacts /\ fail_at <= rows
                             THEN (IF fail_at = 0 THEN "delete" ELSE "insert")
                             ELSE "none"
            /\ StockPrices' = IF transacts /\ commit_ok
                              THEN AfterTransaction(StockPrices, form.symbol_id, src,
                                                    rows, fail_at)
                              ELSE StockPrices
    /\ web_requests' = web_requests + 1
    /\ UNCHANGED pending
    /\ UNCHANGED <<rate_vars, dl_vars, st_vars, fs_vars, rest_vars>>

WebNext == descargar

----------------------------------------------------------------------------
(* Specifications *)

\* The parts of the state a specification does not exercise.
RateOff ==
    /\ now = StartClock
    /\ last_call_timestamp = [c \in Clients |-> 0]
    /\ prev_timestamp = [c \in Clients |-> 0]
    /\ slept = [c \in Clients |-> 0]
    /\ calls = [c \in Clients |-> 0]

DlOff == DlInit /\ api_function = "TIME_SERIES_DAILY_ADJUSTED"

StoreOff == StoreInit /\ impl = "commented"

PlOff == PlInit /\ Symbols = {SymbolRow(symbol_ticker, TRUE)}

FsOff == FsInit /\ file_meta = [f \in Files |-> [series |-> FALSE, rows |-> 0, meta |-> "ok"]]

\* the parts described after the web form, at rest
JsOff ==
    /\ JsIdle
    /\ json_file = <<"MSFT.json">>
    /\ json_doc = [kind |-> "no_section", series |-> <<>>]

RestOff == PlOff /\ JsOff /\ SgInit /\ MdOff /\ LoopOff

InitRate == RateInit /\ DlOff /\ StoreOff /\ FsOff /\ WebInit /\ RestOff

InitDl ==
    RateInit /\ DlInit /\ StoreOff /\ FsOff /\ WebInit /\ PlInit /\ JsOff /\ SgInit /\ MdOff /\ LoopOff

InitStore == RateOff /\ DlOff /\ StoreInit /\ FsOff /\ WebInit /\ RestOff

InitFiles == RateOff /\ DlOff /\ StoreInit /\ FsInit /\ WebInit /\ RestOff

InitWeb ==
    /\ RateOff /\ DlOff /\ FsOff /\ WebInit /\ RestOff
    /\ impl = "commented"
    /\ StockPrices \in WebTables
    /\ pending = <<>>
    /\ st_pc = "idle" /\ st_src = "none" /\ st_n = 0 /\ st_i = 0
    /\ total_inserted = 0 /\ st_return = 0 /\ batches = <<>>
    /\ commits = 0 /\ st_error = "none"

SpecRate == InitRate /\ [][RateNext]_vars

SpecDl == InitDl /\ [][DlNext]_vars

\* The interpreter keeps running the call until it returns.
SpecDlFair == SpecDl /\ WF_vars(DlNext)

SpecStore == InitStore /\ [][StoreNext]_vars

SpecFiles == InitFiles /\ [][FsNext]_vars

SpecWeb == InitWeb /\ [][WebNext]_vars

InitPipeline ==
    RateOff /\ DlInit /\ StoreOff /\ FsOff /\ WebInit /\ PlInit /\ JsOff /\ SgInit /\ MdOff /\ LoopOff

SpecPipeline == InitPipeline /\ [][PipelineNext]_vars

InitJson ==
    RateOff /\ DlOff /\ StoreOff /\ FsOff /\ WebInit /\ PlOff /\ JsInit /\ SgInit /\ MdOff /\ LoopOff

SpecJson == InitJson /\ [][JsNext]_vars

InitSingleton ==
    RateOff /\ DlOff /\ StoreOff /\ FsOff /\ WebInit /\ PlOff /\ JsOff /\ SgInit /\ MdOff /\ LoopOff

SpecSingleton == InitSingleton /\ [][SgNext]_vars

InitMeta ==
    /\ RateOff /\ DlOff /\ StoreOff /\ FsOff /\ WebInit /\ JsOff /\ SgInit /\ LoopOff
    /\ Symbols \in MetaSymbolTables /\ PlIdle
    /\ MdInit

SpecMeta == InitMeta /\ [][MdNext]_vars

InitLoop ==
    /\ RateOff /\ DlOff /\ StoreOff /\ FsOff /\ WebInit /\ PlOff /\ JsOff /\ SgInit /\ MdOff
    /\ LoopInit

SpecLoop == InitLoop /\ [][LoopNext]_vars

----------------------------------------------------------------------------
(* C1: on one client, the timestamps stored by two consecutive rate-limit   *)
(* calls are at least min_call_interval seconds apart, and the first call  *)
(* of a client does not sleep.                                             *)
C1_RateLimitSpacing ==
    \A c \in Clients :
        /\ calls[c] >= 2 => last_call_timestamp[c] - prev_timestamp[c] >= min_call_interval
        /\ calls[c] = 1 => slept[c] = 0

\* a second call that had to sleep
C1_Witness ==
    \E c \in Clients : calls[c] = 2 /\ slept[c] > 0

(* C2: once the download record exists, download_symbol_data makes at most  *)
(* 3 attempts, sleeps 60 s before the 2nd and 120 s before the 3rd, never  *)
(* sleeps after its last attempt, and returns.                             *)
C2_Shape ==
    /\ attempt <= max_retries
    /\ Len(dl_sleeps) <= 2
    /\ \A i \in DOMAIN dl_sleeps : dl_sleeps[i] = <<60, 120>>[i]
    /\ attempt >= 1 => Len(dl_sleeps) = attempt - 1

C2_BoundedRetry ==
    /\ []C2_Shape
    /\ (dl_pc = "call_api") ~> (dl_pc = "returned")

\* a download that returned after its third attempt
C2_Witness ==
    dl_pc = "returned" /\ attempt = 3 /\ dl_sleeps = <<60, 120>>

(* C3: every call of get_daily_time_series / get_daily_adjusted ends by     *)
(* returning the response data or None, whatever the API answers.          *)
C3_ApiReturnsDataOrNone ==
    dl_pc = "api_done" => api_result.kind \in {"data", "None"}

(* C4: download_symbol_data returns success=True with data, and marks the   *)
(* download record 'Completed', only when the returned response has a      *)
(* 'Time Series (Daily)' section.                                          *)
C4_SuccessOnlyWithTimeSeries ==
    dl_pc = "returned" =>
        /\ (dl_return.success /\ dl_return.data # None) => HasTimeSeries(dl_return.data)
        /\ download_status = "Completed" => HasTimeSeries(dl_return.data)

----------------------------------------------------------------------------
\* The positions of the data_list held by a sequence of slices, in order.
RECURSIVE Positions(_)
Positions(bs) ==
    IF bs = <<>> THEN <<>>
    ELSE [k \in 1 .. SliceLen(Head(bs)) |-> Head(bs).lo + k - 1] \o Positions(Tail(bs))

\* Number of committed rows of AVdata.StockPrices that came from src.
RECURSIVE CommittedRows(_, _)
CommittedRows(table, src) ==
    IF table = <<>> THEN 0
    ELSE (IF Head(table).src = src THEN SliceLen(Head(table)) ELSE 0)
         + CommittedRows(Tail(table), src)

(* C5: for a known symbol and n > 0 rows, when nothing fails, store_stock_data *)
(* issues ceil(n/1000) batches of at most 1000 rows that hold every row once, *)
(* in order, commits after each of them, and returns n.                      *)
C5_BatchInsert ==
    (st_pc = "returned" /\ st_n > 0 /\ st_error = "none") =>
        /\ Len(batches) = (st_n + 999) \div 1000
        /\ \A k \in DOMAIN batches : SliceLen(batches[k]) \in 1 .. 1000
        /\ Positions(batches) = [k \in 1 .. st_n |-> k]
        /\ commits = Len(batches)
        /\ pending = <<>>
        /\ StockPrices = batches
        /\ st_return = st_n

\* a data_list of more than two full batches was stored
C5_Witness ==
    st_pc = "returned" /\ st_n > 2 * batch_size /\ st_error = "none" /\ Len(batches) = 3

(* C6: the value returned by the commented store_stock_data is the number of *)
(* rows of the call that are committed in AVdata.StockPrices.               *)
C6_ReturnIsCommitted ==
    (st_pc = "returned" /\ impl = "commented") =>
        st_return = CommittedRows(StockPrices, st_src)

(* C7: when a batch insert raises, no row of the call stays in              *)
(* AVdata.StockPrices.                                                       *)
C7_AllOrNothing ==
    (st_pc = "returned" /\ st_error = "executemany") =>
        CommittedRows(StockPrices, st_src) = 0

(* C10: over any sequence of runs of process_all_json_files, no row of a    *)
(* JSON file is inserted into AVdata.StockPrices more than once.            *)
C10_InsertedAtMostOnce ==
    \A a, b \in DOMAIN StockPrices :
        (a # b /\ StockPrices[a].src = StockPrices[b].src) =>
            (StockPrices[a].hi < StockPrices[b].lo \/ StockPrices[b].hi < StockPrices[a].lo)

(* C11: every file found in data/processed has had its records stored in     *)
(* AVdata.StockPrices: its JSON had the time series section and every row of *)
(* its data_list is a committed row of the table (a file whose processing    *)
(* failed is not moved).                                                     *)
C11_MovedFilesAreStored ==
    \A f \in processed_dir :
        /\ file_meta[f].series
        /\ \A p \in 1 .. file_meta[f].rows :
              \E k \in DOMAIN StockPrices :
                  /\ StockPrices[k].src = f
                  /\ p \in StockPrices[k].lo .. StockPrices[k].hi

\* no database or disk operation of the two downloads failed
NoFaults ==
    /\ env.record_created = {TRUE}
    /\ env.save_raises = {FALSE}
    /\ env.update_ok = {TRUE}
    /\ ~poo_return.faults

(* C12: run on the same ticker, the same initial database and the same API    *)
(* answers, with no failing database or disk operation, the commented and    *)
(* the POO download_symbol_data end with the same success flag, the same     *)
(* number of API requests, the same final status of the download record and  *)
(* the same rows in Metadata.Symbols.                                        *)
C12_SameDownloadOutcome ==
    (poo_pc = "returned" /\ dl_pc = "returned" /\ NoFaults) =>
        /\ dl_return.success = poo_return.success
        /\ api_requests = poo_return.requests
        /\ download_status = poo_return.status
        /\ Symbols = poo_Symbols

\* The (symbol, data_list) described for a file: the format is read off the
\* first entry, and one record that cannot be converted voids the file.
C13_Described(filename, doc) ==
    LET adjusted == doc.series # <<>>
                    /\ doc.series[1].values["5. adjusted close"].kind # "absent"
        volume(values) == IF adjusted THEN values["6. volume"] ELSE values["5. volume"]
        adjusted_close(values) ==
            IF adjusted THEN values["5. adjusted close"] ELSE values["4. close"]
        convertible(values) ==
            /\ \A k \in {"1. open", "2. high", "3. low", "4. close"} :
                  CanParseFloat(values[k])
            /\ CanParseInt(volume(values))
            /\ CanParseFloat(adjusted_close(values))
    IN  IF doc.kind # "series" \/ \E i \in DOMAIN doc.series : ~convertible(doc.series[i].values)
        THEN NoneNone
        ELSE Returned(Head(filename),
               [i \in DOMAIN doc.series |->
                  [date |-> Dates[i],
                   open |-> ParseFloat(doc.series[i].values["1. open"]),
                   high |-> ParseFloat(doc.series[i].values["2. high"]),
                   low |-> ParseFloat(doc.series[i].values["3. low"]),
                   close |-> ParseFloat(doc.series[i].values["4. close"]),
                   volume |-> ParseInt(volume(doc.series[i].values)),
                   adjusted_close |-> ParseFloat(adjusted_close(doc.series[i].values))]])

(* C13: for every JSON file the commented process_json_file and the POO       *)
(* JSONProcessor.process return the same (symbol, data_list): one record per *)
(* date, volume from '6. volume' and adjusted_close from '5. adjusted close' *)
(* when the first entry has '5. adjusted close', otherwise volume from       *)
(* '5. volume' and adjusted_close equal to close; (None, None) when the      *)
(* section is missing or a record cannot be converted.                       *)
C13_SameReshaping ==
    json_done = Impls =>
        /\ json_out["commented"] = json_out["poo"]
        /\ json_out["commented"] = C13_Described(json_file, json_doc)

\* both have processed a two-date file in the adjusted format whose second
\* entry also carries a '5. volume'; the volume returned is its '6. volume'
C13_Witness ==
    /\ json_done = Impls
    /\ ~json_out["commented"].none
    /\ Len(json_out["commented"].data_list) = 2
    /\ json_doc.series[1].values["5. adjusted close"].kind # "absent"
    /\ json_doc.series[2].values["5. volume"].kind = "int"
    /\ json_out["poo"].data_list[2].volume = ParseInt(json_doc.series[2].values["6. volume"])
    /\ json_out["poo"].data_list[2].adjusted_close # json_out["poo"].data_list[2].close

\* the objects of class cls created so far
ObjectsOf(cls) == {o \in DOMAIN heap : heap[o].class = cls}

\* Each class has at most one object, every constructor call of the class
\* returned it, and no object was returned for two classes.
C14_OneInstance ==
    /\ \A c \in SingletonClasses :
          /\ Cardinality(ObjectsOf(c)) <= 1
          /\ returned[c] \subseteq ObjectsOf(c)
          /\ instances[c] # NoObject => ObjectsOf(c) = {instances[c]}
    /\ \A c, d \in SingletonClasses : c # d => returned[c] \cap returned[d] = {}

\* A constructor call leaves the instance of every class that had one, with
\* its attributes, api_key and last_call_timestamp included.
C14_NoReset ==
    sg_calls' # sg_calls =>
        \A c \in SingletonClasses :
            instances[c] # NoObject =>
                /\ instances'[c] = instances[c]
                /\ heap'[instances[c]] = heap[instances[c]]
                /\ c = "AlphaVantageClient" =>
                      last_call_timestamp'[c] = last_call_timestamp[c]

(* C14: after any sequence of constructor calls at most one instance exists  *)
(* per class deriving from Singleton, every construction of a class returns  *)
(* the same object, two classes never share an instance, and a later         *)
(* construction, even with another api_key, does not reset the state of the  *)
(* instance (api_key, last_call_timestamp, config, db).                      *)
C14_Singleton == []C14_OneInstance /\ [][C14_NoReset]_vars

\* the client was built with one key, used, and built again with another key
C14_Witness ==
    /\ sg_last = [class |-> "AlphaVantageClient", api_key |-> "KEY2"]
    /\ instances["AlphaVantageClient"] # NoObject
    /\ heap[instances["AlphaVantageClient"]].api_key.value = "KEY1"
    /\ last_call_timestamp["AlphaVantageClient"] > 0
    /\ instances["MetadataManager"] # NoObject
    /\ sg_calls >= 3

C15_Records(symbol) == {d \in Downloads : d.Symbol = symbol}
C15_IsLatest(d) ==
    /\ ~d.LastDownloadDate.null
    /\ \A o \in C15_Records(d.Symbol) :
          o.LastDownloadDate.null \/ o.LastDownloadDate.t <= d.LastDownloadDate.t

C16_RequestsTwelveSecondsApart ==
    \A k \in 2 .. Len(request_times) :
        request_times[k] - request_times[k - 1] >= 12

----------------------------------------------------------------------------
\* t1 is a later calendar date than t2
DateLater(t1, t2) ==
    \/ t1.y > t2.y
    \/ (t1.y = t2.y /\ t1.m > t2.m)
    \/ (t1.y = t2.y /\ t1.m = t2.m /\ t1.d > t2.d)

\* the text is a calendar date written as year-month-day
IsYmdDate(f) == f.kind = "ymd" /\ f.m \in 1 .. 12 /\ f.d \in 1 .. DaysIn(f.y, f.m)

(* C8: if the DELETE or an INSERT of the transaction raises, the table      *)
(* holds afterwards exactly the rows it held before the request.            *)
C8_RolledBackOnError ==
    web_failed # "none" => StockPrices = web_before

(* C9: a request with a missing symbol_id, a missing date, a date that is   *)
(* not a YYYY-MM-DD date or a start date later than the end date is         *)
(* answered with a redirect and makes no database connection, no download  *)
(* and no change of AVData.StockPrices.                                     *)
C9_Rejected(form) ==
    \/ form.symbol_id = ""
    \/ form.fecha_inicio.kind = "missing"
    \/ form.fecha_fin.kind = "missing"
    \/ ~IsYmdDate(form.fecha_inicio)
    \/ ~IsYmdDate(form.fecha_fin)
    \/ DateLater(form.fecha_inicio, form.fecha_fin)

====
